---- MODULE Spec2Model ----
(***************************************************************************)
(* Model of the Fubon ranked-list scraper (src/fubon_scraper): the code/   *)
(* name extraction passes of extractors.py, the group builder and the     *)
(* N-way intersection engine of scraper.py.                                *)
(*                                                                         *)
(* Text is modelled as a sequence of characters, a character as a short    *)
(* string token.  Pages are decoded from Big5 (utils.fetch_html), whose    *)
(* decimal digits and Latin letters are the half-width (ASCII) and the     *)
(* full-width ones; a full-width character is written "F" + its half-width *)
(* form ("F2" is U+FF12, "Fr" is U+FF52).                                  *)
(*                                                                         *)
(* A DataFrame with the columns (code, name) is a sequence of records      *)
(* [code |-> text, name |-> text] in row order.                            *)
(***************************************************************************)
EXTENDS Integers, Sequences, FiniteSets, TLC

VARIABLES
    html,       \* the document the fetcher serves in this run
    pc,         \* position in run_scraper: "build", "rules", "done"
    ti,         \* number of targets whose build has finished
    data,       \* run_scraper's data: label -> DataFrame
    rules,      \* config.INTERSECTION_RULES of this run
    ri,         \* number of rules evaluated
    inter,      \* rule name -> inter_df as returned by _nway_intersection
    overlaps,   \* run_scraper's overlaps: rule name -> list of records
    stdout,     \* the lines printed so far ([OK], [ERR], [FIX])
    payload,    \* the JSON document written at the end, <<>> before
    targets,    \* run_scraper's targets: the (name, url) pairs to build
    lines,      \* _chunk_lines' argument
    li,         \* number of lines _chunk_lines has taken
    buf,        \* _chunk_lines' buf
    curr,       \* _chunk_lines' curr
    chunks      \* the chunks _chunk_lines has yielded so far

\* the state of the generator _chunk_lines
chunker == <<lines, li, buf, curr, chunks>>

vars == <<html, pc, ti, data, rules, ri, inter, overlaps, stdout, payload, targets, chunker>>

---------------------------------------------------------------------------
(* Characters                                                              *)

HalfDigits == {"0", "1", "2", "3", "6", "7", "9"}
FullDigits == {"F0", "F2", "F3"}
HalfUpper  == {"R"}
HalfLower  == {"r"}
FullLetters == {"FR", "Fr"}
Whitespace == {" "}
\* CJK ideographs U+53F0 and U+7A4D, the characters of the display names
Ideographs == {"u53F0", "u7A4D"}
Chars == HalfDigits \cup FullDigits \cup HalfUpper \cup HalfLower
            \cup FullLetters \cup Whitespace \cup Ideographs \cup {"*"}

\* Unicode code point of a character: the order sorted() compares by.
Ord(ch) ==
    CASE ch = " "  -> 32
      [] ch = "*"  -> 42
      [] ch = "0"  -> 48
      [] ch = "1"  -> 49
      [] ch = "2"  -> 50
      [] ch = "3"  -> 51
      [] ch = "6"  -> 54
      [] ch = "7"  -> 55
      [] ch = "9"  -> 57
      [] ch = "R"  -> 82
      [] ch = "r"  -> 114
      [] ch = "F0" -> 65296
      [] ch = "F2" -> 65298
      [] ch = "F3" -> 65299
      [] ch = "FR" -> 65330
      [] ch = "Fr" -> 65362
      [] ch = "u53F0" -> 21488
      [] ch = "u7A4D" -> 31309

\* \d of Python's re on str: any Unicode decimal digit.
IsDigit(ch) == ch \in HalfDigits \cup FullDigits

\* [A-Za-z]
IsHalfLetter(ch) == ch \in HalfUpper \cup HalfLower

\* [A-Za-zＡ-Ｚａ-ｚ]
IsAnyLetter(ch) == ch \in HalfUpper \cup HalfLower \cup FullLetters

\* \s
IsSpace(ch) == ch \in Whitespace

\* unicodedata.normalize("NFKC", .) on one character
NFKCChar(ch) ==
    CASE ch = "F0" -> "0"
      [] ch = "F2" -> "2"
      [] ch = "F3" -> "3"
      [] ch = "FR" -> "R"
      [] ch = "Fr" -> "r"
      [] OTHER     -> ch

\* str.upper() on one character (full-width letters have upper forms too)
UpperChar(ch) ==
    CASE ch = "r"  -> "R"
      [] ch = "Fr" -> "FR"
      [] OTHER     -> ch

\* unicodedata.normalize("NFKC", s)
NFKC(s) == [i \in 1..Len(s) |-> NFKCChar(s[i])]

\* s.upper()
Upper(s) == [i \in 1..Len(s) |-> UpperChar(s[i])]

IsNotSpace(ch) == ~IsSpace(ch)

\* re.sub(r"\s+", "", s)
RemoveSpace(s) == SelectSeq(s, IsNotSpace)

IsNotStar(ch) == ch # "*"

\* faulty variant: only the first asterisk is removed
RemoveFirstStar(s) ==
    LET stars == {i \in DOMAIN s : s[i] = "*"}
    IN  IF stars = {} THEN s
        ELSE LET k == CHOOSE i \in stars : \A j \in stars : i <= j
             IN  SubSeq(s, 1, k - 1) \o SubSeq(s, k + 1, Len(s))

\* s.replace("*", "")
RemoveStar(s) == SelectSeq(s, IsNotStar)

RECURSIVE LStrip(_)
LStrip(s) == IF s # <<>> /\ IsSpace(Head(s)) THEN LStrip(Tail(s)) ELSE s

RECURSIVE RStrip(_)
RStrip(s) ==
    IF s # <<>> /\ IsSpace(s[Len(s)]) THEN RStrip(SubSeq(s, 1, Len(s) - 1)) ELSE s

\* str.strip()
Strip(s) == RStrip(LStrip(s))

\* a < b for Python str: lexicographic by code point
RECURSIVE StrLess(_, _)
StrLess(a, b) ==
    IF b = <<>> THEN FALSE
    ELSE IF a = <<>> THEN TRUE
    ELSE IF Head(a) # Head(b) THEN Ord(Head(a)) < Ord(Head(b))
    ELSE StrLess(Tail(a), Tail(b))

\* sorted(S) for a set of str
RECURSIVE Sorted(_)
Sorted(S) ==
    IF S = {} THEN <<>>
    ELSE LET m == CHOOSE x \in S : \A y \in S \ {x} : StrLess(x, y)
         IN  <<m>> \o Sorted(S \ {m})

---------------------------------------------------------------------------
(* DataFrames                                                              *)

Row(c, n) == [code |-> c, name |-> n]

\* pd.DataFrame(columns=["code", "name"])
EmptyDF == <<>>

\* set(df["code"])
CodeSet(df) == {df[i].code : i \in DOMAIN df}

\* DataFrame.drop_duplicates(): a row equal to an earlier row is dropped
RECURSIVE drop_duplicates(_)
drop_duplicates(df) ==
    IF df = <<>> THEN <<>>
    ELSE LET init == drop_duplicates(SubSeq(df, 1, Len(df) - 1))
             last == df[Len(df)]
         IN  IF \E i \in DOMAIN init : init[i] = last THEN init
             ELSE Append(init, last)

\* the concatenation of a sequence of sequences
RECURSIVE Flatten(_)
Flatten(ss) == IF ss = <<>> THEN <<>> ELSE Head(ss) \o Flatten(Tail(ss))

\* all sequences over S of length at most n
BSeq(S, n) == UNION {[1..k -> S] : k \in 0..n}

Min(S) == CHOOSE x \in S : \A y \in S : x <= y

---------------------------------------------------------------------------
(* Documents                                                               *)
(*                                                                         *)
(* A document is the sequence of its markup fragments ("items") in         *)
(* document order.  An item [kind, code, name] is                          *)
(*   "buy", "sell"   the side marker ">買超<" / ">賣超<"                    *)
(*   "buy_padded", "sell_padded"   the marker with blanks inside >...<     *)
(*   "link"    <a onclick="GenLink2stk('AS<code>')"><code><name></a>; the  *)
(*             name starts with neither a digit nor a Latin letter         *)
(*   "js"      a script call GenLink2stk('AS<code>','<name>')              *)
(*   "thead"   a one-row <table> whose header cells are the code and name  *)
(*             labels and whose row holds the text cells <code>, <name>    *)
(*   "table"   a one-row <table> without such headers, same cells          *)
(*   "text"    the plain text "<code> <name>" outside any element          *)
(* Markers carry code = name = <<>>.                                       *)

MinDigits == 4
MaxDigits == 6

\* pandas' missing value; no text the passes produce is empty where it stands
NaN == <<>>

AllDigits(s) == \A i \in DOMAIN s : IsDigit(s[i])

\* fullmatch of \d{4,6}[A-Za-zＡ-Ｚａ-ｚ]? : what the passes' patterns capture
RawCodeShape(c) ==
    \/ Len(c) \in MinDigits..MaxDigits /\ AllDigits(c)
    \/ /\ Len(c) - 1 \in MinDigits..MaxDigits
       /\ AllDigits(SubSeq(c, 1, Len(c) - 1))
       /\ IsAnyLetter(c[Len(c)])

\* re.fullmatch(r"\d{4,6}[A-Za-z]?", c)
fullmatch_code(c) ==
    \/ Len(c) \in MinDigits..MaxDigits /\ AllDigits(c)
    \/ /\ Len(c) - 1 \in MinDigits..MaxDigits
       /\ AllDigits(SubSeq(c, 1, Len(c) - 1))
       /\ IsHalfLetter(c[Len(c)])

\* the length of the maximal run of digits of s that starts at i
RunLen(s, i) ==
    CHOOSE k \in 1..(Len(s) - i + 1) :
        /\ \A j \in i..(i + k - 1) : IsDigit(s[j])
        /\ i + k > Len(s) \/ ~IsDigit(s[i + k])

\* Series.str.extract(RE_CODE), RE_CODE = (?<!\d)(\d{4,6})(?!\d): the first
\* maximal run of digits that is 4 to 6 long, NaN when there is none
RE_CODE_extract(s) ==
    LET starts == {i \in DOMAIN s :
                     /\ IsDigit(s[i])
                     /\ i = 1 \/ ~IsDigit(s[i - 1])
                     /\ RunLen(s, i) \in MinDigits..MaxDigits}
        at  == CHOOSE i \in starts : \A k \in starts : i <= k
    IN  IF starts = {} THEN NaN ELSE SubSeq(s, at, at + RunLen(s, at) - 1)

\* [一-鿿A-Za-z0-9\-\._] restricted to Chars
IsNameChar(ch) == ch \in Ideographs \cup HalfUpper \cup HalfLower \cup HalfDigits

\* [0-9A-Za-zＡ-Ｚａ-ｚ], the class of RE_CODE_NAME's lookarounds
IsAlnum(ch) == ch \in HalfDigits \cup HalfUpper \cup HalfLower \cup FullLetters

\* the longest prefix of s made of name characters
RECURSIVE NameRun(_)
NameRun(s) ==
    IF s # <<>> /\ IsNameChar(Head(s)) THEN <<Head(s)>> \o NameRun(Tail(s)) ELSE <<>>

\* RE_CODE_NAME.search on the text "<code> <name>" of a table row or of plain
\* text: the rows it yields (none or one), code and name as captured
ScanCells(code, name) ==
    IF RawCodeShape(code) /\ NameRun(LStrip(name)) # <<>>
    THEN <<Row(code, NameRun(LStrip(name)))>>
    ELSE <<>>

\* RE_CODE_NAME.search on the text "<code><name>" of a link
ScanLinkText(code, name) ==
    IF /\ RawCodeShape(code)
       /\ name # <<>>
       /\ ~IsAlnum(Head(name))
       /\ NameRun(LStrip(name)) # <<>>
    THEN <<Row(code, NameRun(LStrip(name)))>>
    ELSE <<>>

IsLink(it)  == it.kind = "link"
IsJs(it)    == it.kind = "js"
IsTable(it) == it.kind \in {"thead", "table"}
IsText(it)  == it.kind = "text"

\* the rows a pass yields, given the rows (none or one) of each item
PassRows(per_item) == Flatten(per_item)

\* what a pass returns: None, or a DataFrame
None == [is_none |-> TRUE, df |-> <<>>]

Some(df) == [is_none |-> FALSE, df |-> df]

\* `if not rows: return None`, else the DataFrame without repeated rows
OrNone(rows) == IF rows = <<>> THEN None ELSE Some(drop_duplicates(rows))

extract_from_onclick(doc) ==
    LET OnclickRow(it) ==
            IF IsLink(it) /\ RawCodeShape(it.code) /\ Strip(it.code \o it.name) # <<>>
            THEN <<Row(it.code, Strip(it.name))>>
            ELSE <<>>
    IN  OrNone(PassRows([i \in DOMAIN doc |-> OnclickRow(doc[i])]))

extract_from_js(doc) ==
    LET JsRow(it) ==
            IF IsJs(it) /\ RawCodeShape(it.code) /\ Strip(it.name) # <<>>
            THEN <<Row(it.code, Strip(it.name))>>
            ELSE <<>>
    IN  OrNone(PassRows([i \in DOMAIN doc |-> JsRow(doc[i])]))

\* faulty variant: the row-level matches of every table are collected first
\* and a table with both headers is mapped only when they find nothing
extract_from_tables_scanning(doc) ==
    LET candidates == SelectSeq(doc, IsTable)
        Mapped(t) == IF RE_CODE_extract(t.code) = NaN THEN <<>>
                     ELSE <<Row(RE_CODE_extract(t.code), RemoveSpace(t.name))>>
        usable == {i \in DOMAIN candidates :
                     candidates[i].kind = "thead" /\ Mapped(candidates[i]) # <<>>}
        scanned == PassRows([i \in DOMAIN candidates |->
                               ScanCells(candidates[i].code, candidates[i].name)])
    IN  IF candidates = <<>> THEN None
        ELSE IF scanned # <<>> THEN Some(drop_duplicates(scanned))
        ELSE IF usable # {} THEN Some(Mapped(candidates[Min(usable)]))
        ELSE None

extract_from_tables(doc) ==
    LET candidates == SelectSeq(doc, IsTable)
        Mapped(t) == IF RE_CODE_extract(t.code) = NaN THEN <<>>
                     ELSE <<Row(RE_CODE_extract(t.code), RemoveSpace(t.name))>>
        usable == {i \in DOMAIN candidates :
                     candidates[i].kind = "thead" /\ Mapped(candidates[i]) # <<>>}
    IN  IF candidates = <<>> THEN None
        ELSE IF usable # {} THEN Some(Mapped(candidates[Min(usable)]))
        ELSE OrNone(PassRows([i \in DOMAIN candidates |->
                                ScanCells(candidates[i].code, candidates[i].name)]))

\* the result of a function that returns a DataFrame or raises
Returned(df) == [ok |-> TRUE, df |-> df, error |-> "none"]
Raised(e)    == [ok |-> FALSE, df |-> EmptyDF, error |-> e]

\* lines 102-105: both columns re-normalised, rows with a NaN code dropped
normalize_generic(df) ==
    LET coded == [i \in DOMAIN df |->
                    Row(RE_CODE_extract(df[i].code), RemoveSpace(df[i].name))]
        HasCode(r) == r.code # NaN
    IN  drop_duplicates(SelectSeq(coded, HasCode))

\* faulty variant: the results of all passes are concatenated
parse_codes_generic_merging(doc) ==
    LET all == extract_from_onclick(doc).df \o extract_from_js(doc).df
                 \o extract_from_tables(doc).df
    IN  IF all = <<>> THEN Raised("exhausted") ELSE Returned(normalize_generic(all))

\* faulty variant: when no pass finds a row an empty DataFrame is returned
parse_codes_generic_lenient(doc) ==
    LET passes == <<extract_from_onclick(doc), extract_from_js(doc),
                    extract_from_tables(doc)>>
        hits == {i \in DOMAIN passes : ~passes[i].is_none /\ Len(passes[i].df) > 0}
    IN  IF hits = {} THEN Returned(EmptyDF)
        ELSE Returned(normalize_generic(passes[Min(hits)].df))

parse_codes_generic(doc) ==
    LET passes == <<extract_from_onclick(doc), extract_from_js(doc),
                    extract_from_tables(doc)>>
        hits == {i \in DOMAIN passes : ~passes[i].is_none /\ Len(passes[i].df) > 0}
    IN  IF hits = {} THEN Raised("exhausted")
        ELSE Returned(normalize_generic(passes[Min(hits)].df))

\* the marker kind with blanks between the brackets and the label
Padded(side) == IF side = "buy" THEN "buy_padded" ELSE "sell_padded"

\* faulty variant: without a marker of the side the whole document is the segment
zgb_start_lenient(doc, side) ==
    LET loose == {i \in DOMAIN doc : doc[i].kind \in {side, Padded(side)}}
    IN  IF loose # {} THEN Min(loose) ELSE IF doc # <<>> THEN 1 ELSE -1

\* lines 119-125: the position of the side's marker, found by compact.find
\* of the exact marker and, only when that fails, by the pattern that allows
\* blanks; -1 when neither is found
zgb_start(doc, side) ==
    LET exact == {i \in DOMAIN doc : doc[i].kind = side}
        loose == {i \in DOMAIN doc : doc[i].kind \in {side, Padded(side)}}
    IN  IF exact # {} THEN Min(exact)
        ELSE IF loose # {} THEN Min(loose) ELSE -1

\* lines 119-129: the items from the side's marker up to the other side's
\* marker; <<>> stands for start = -1 (a segment holds its marker at least)
zgb_segment(doc, side) ==
    LET start  == zgb_start(doc, side)
        other  == IF side = "buy" THEN "sell" ELSE "buy"
        ends   == {i \in DOMAIN doc : i > start /\ doc[i].kind = other}
    IN  IF start = -1 THEN <<>>
        ELSE IF ends # {} THEN SubSeq(doc, start, Min(ends) - 1)
        ELSE SubSeq(doc, start, Len(doc))

\* pass (1): any call ('<prefix><code>','<name>') in the segment text
zgb_js_rows(segment) ==
    LET JsRow(it) ==
            IF IsJs(it) /\ RawCodeShape(it.code) /\ it.name # <<>>
            THEN <<Row(it.code, RemoveSpace(it.name))>>
            ELSE <<>>
    IN  PassRows([i \in DOMAIN segment |-> JsRow(segment[i])])

\* pass (2): ^(\d{4,6}[A-Za-zＡ-Ｚａ-ｚ]?)\s*(.+)$ on the text of each <a>; a
\* text that is the code alone gives up its last character as the name
zgb_anchor_rows(segment) ==
    LET AnchorRow(it) ==
            IF ~(IsLink(it) /\ RawCodeShape(it.code)) THEN <<>>
            ELSE IF Strip(it.name) # <<>>
            THEN <<Row(it.code, RemoveSpace(it.name))>>
            ELSE IF Len(it.code) > MinDigits
            THEN <<Row(SubSeq(it.code, 1, Len(it.code) - 1), <<it.code[Len(it.code)]>>)>>
            ELSE <<>>
    IN  PassRows([i \in DOMAIN segment |-> AnchorRow(segment[i])])

\* pass (3): RE_CODE_NAME on every row of every table
zgb_table_rows(segment) ==
    LET TableRow(it) ==
            IF IsTable(it) THEN ScanCells(it.code, it.name) ELSE <<>>
    IN  PassRows([i \in DOMAIN segment |-> TableRow(segment[i])])

\* pass (4): RE_CODE_NAME over get_text of the segment, which holds the text
\* of links, table cells and plain text (not of scripts)
zgb_plain_rows(segment) ==
    LET PlainRow(it) ==
            IF IsLink(it) THEN ScanLinkText(it.code, it.name)
            ELSE IF IsTable(it) \/ IsText(it) THEN ScanCells(it.code, it.name)
            ELSE <<>>
    IN  PassRows([i \in DOMAIN segment |-> PlainRow(segment[i])])

\* line 171-172
zgb_normalize_code(code) == Upper(RemoveSpace(NFKC(code)))

\* lines 168-179: the rows cleaned and deduplicated by code, `seen` being the
\* codes kept so far
RECURSIVE zgb_clean(_, _)
zgb_clean(rows, seen) ==
    IF rows = <<>> THEN <<>>
    ELSE LET code == zgb_normalize_code(Head(rows).code)
         IN  IF ~fullmatch_code(code) \/ code \in seen
             THEN zgb_clean(Tail(rows), seen)
             ELSE <<Row(code, Strip(RemoveStar(Head(rows).name)))>>
                    \o zgb_clean(Tail(rows), seen \cup {code})

\* faulty variant: first non-empty pass wins, as in parse_codes_generic
extract_zgb_side_cascade(doc, side) ==
    LET segment == zgb_segment(doc, side)
        passes  == <<zgb_js_rows(segment), zgb_anchor_rows(segment),
                     zgb_table_rows(segment), zgb_plain_rows(segment)>>
        hits    == {i \in DOMAIN passes : passes[i] # <<>>}
    IN  IF segment = <<>> THEN Raised("segment")
        ELSE IF hits = {} THEN Raised("exhausted")
        ELSE Returned(zgb_clean(passes[Min(hits)], {}))

extract_zgb_side(doc, side) ==
    LET segment == zgb_segment(doc, side)
        rows    == zgb_js_rows(segment) \o zgb_anchor_rows(segment)
                     \o zgb_table_rows(segment) \o zgb_plain_rows(segment)
    IN  IF segment = <<>> THEN Raised("segment")
        ELSE IF rows = <<>> THEN Raised("exhausted")
        ELSE Returned(zgb_clean(rows, {}))

\* a URL: its page and the value of its query parameter c, "" without one
Url(page, c) == [page |-> page, c |-> c]

\* utils.build_zgb_url: the dual-sided page with the params as query string
build_zgb_url(params) == Url("zgb0", params.c)

\* utils.zgb_side_from_url: the side the query parameter c asks for
zgb_side_from_url(url) ==
    LET c == IF url.c = "" THEN "B" ELSE url.c
    IN  IF c = "B" THEN "buy" ELSE "sell"

\* "/z/zg/zgb/zgb0.djhtm" in url.lower()
IsZgbUrl(url) == url.page = "zgb0"

\* the configured targets (lines 100-114): one DD page, one default ZGB
\* target, one extra ZGB target whose label ends in "S"
Targets ==
    <<[name |-> "DD",       url |-> Url("zg_dd", "")],
      [name |-> "ZGB_B",    url |-> build_zgb_url([c |-> "B"])],
      [name |-> "ZGB_1d_S", url |-> build_zgb_url([c |-> "S"])]>>

\* name.endswith("S"), for the names of the targets
EndsWithS(name) == name \in {"ZGB_1d_S", "ZGB_9200_1d_S", "ZGB_US"}

\* _scrape_group once fetch_html has returned the document
_scrape_group(name, url, doc) ==
    LET side == IF EndsWithS(name) THEN "sell" ELSE "buy"
        got  == IF IsZgbUrl(url) THEN extract_zgb_side(doc, side)
                ELSE parse_codes_generic(doc)
    IN  IF got.ok THEN Returned(drop_duplicates(got.df)) ELSE got

---------------------------------------------------------------------------
(* Intersection engine (scraper.py)                                        *)

RECURSIVE SetIntersection(_)
\* set.intersection(*code_sets) for a non-empty list of sets
SetIntersection(code_sets) ==
    IF Len(code_sets) = 1 THEN code_sets[1]
    ELSE code_sets[1] \cap SetIntersection(Tail(code_sets))

\* faulty variant: a later name overwrites an earlier one (no `code not in name_map`)
name_map_get_last(dfs, code) ==
    LET rows == Flatten(dfs)
        hits == {i \in DOMAIN rows :
                    rows[i].code = code /\ Strip(rows[i].name) # <<>>}
    IN  IF hits = {} THEN <<>>
        ELSE Strip(rows[CHOOSE i \in hits : \A k \in hits : k <= i].name)

\* name_map.get(code, "") after the scan of lines 61-67: the stripped name of
\* the first row, in list order then row order, that carries the code and
\* whose stripped name is not empty
name_map_get(dfs, code) ==
    LET rows == Flatten(dfs)
        hits == {i \in DOMAIN rows :
                    rows[i].code = code /\ Strip(rows[i].name) # <<>>}
    IN  IF hits = {} THEN <<>> ELSE Strip(rows[Min(hits)].name)

\* faulty variant: fewer than two non-empty groups give an empty intersection
nway_intersection_needs_two(dfs) ==
    IF dfs = <<>> THEN EmptyDF
    ELSE
      LET NotEmpty(df) == df # <<>>
          kept == SelectSeq(dfs, NotEmpty)
          code_sets == [i \in 1..Len(kept) |-> CodeSet(kept[i])]
      IN  IF Len(code_sets) < 2 THEN EmptyDF
          ELSE
            LET inter_codes == SetIntersection(code_sets)
                order == Sorted(inter_codes)
            IN  IF inter_codes = {} THEN EmptyDF
                ELSE [i \in 1..Len(order) |->
                        Row(order[i], name_map_get(dfs, order[i]))]

\* faulty variant: the common codes are emitted in the order the groups hold them
nway_intersection_unsorted(dfs) ==
    IF dfs = <<>> THEN EmptyDF
    ELSE
      LET NotEmpty(df) == df # <<>>
          kept == SelectSeq(dfs, NotEmpty)
          code_sets == [i \in 1..Len(kept) |-> CodeSet(kept[i])]
      IN  IF code_sets = <<>> THEN EmptyDF
          ELSE
            LET inter_codes == IF Len(code_sets) > 1
                               THEN SetIntersection(code_sets)
                               ELSE code_sets[1]
                Common(r) == r.code \in inter_codes
                first == zgb_clean(SelectSeq(Flatten(dfs), Common), {})
            IN  [i \in 1..Len(first) |->
                    Row(first[i].code, name_map_get(dfs, first[i].code))]

_nway_intersection(dfs) ==
    IF dfs = <<>> THEN EmptyDF
    ELSE
      LET NotEmpty(df) == df # <<>>
          kept == SelectSeq(dfs, NotEmpty)
          code_sets == [i \in 1..Len(kept) |-> CodeSet(kept[i])]
      IN  IF code_sets = <<>> THEN EmptyDF
          ELSE
            LET inter_codes == IF Len(code_sets) > 1
                               THEN SetIntersection(code_sets)
                               ELSE code_sets[1]
                order == Sorted(inter_codes)
            IN  IF inter_codes = {} THEN EmptyDF
                ELSE [i \in 1..Len(order) |->
                        Row(order[i], name_map_get(dfs, order[i]))]

\* name_map after the scan of lines 40-45: for every code of the rows the
\* stripped name of its first row whose stripped name is not empty
RECURSIVE triple_name_map(_, _)
triple_name_map(rows, name_map) ==
    IF rows = <<>> THEN name_map
    ELSE LET code == Head(rows).code
             nm   == Strip(Head(rows).name)
         IN  triple_name_map(Tail(rows),
                             IF code \notin DOMAIN name_map /\ nm # <<>>
                             THEN (code :> nm) @@ name_map
                             ELSE name_map)

\* faulty variant: the names are looked up in the first group only
triple_intersection_first_names(a, b, c) ==
    LET codes    == CodeSet(a) \cap CodeSet(b) \cap CodeSet(c)
        name_map == triple_name_map(a, <<>>)
        order    == Sorted(codes)
    IN  IF codes = {} THEN EmptyDF
        ELSE [i \in 1..Len(order) |->
                Row(order[i], IF order[i] \in DOMAIN name_map
                              THEN name_map[order[i]] ELSE <<>>)]

\* the default rule of run_scraper (scraper.py:34-48; src/test.py:253-267 is
\* the same function): the codes of all three groups, empty ones included
_triple_intersection(a, b, c) ==
    LET codes    == CodeSet(a) \cap CodeSet(b) \cap CodeSet(c)
        name_map == triple_name_map(a \o b \o c, <<>>)
        order    == Sorted(codes)
    IN  IF codes = {} THEN EmptyDF
        ELSE [i \in 1..Len(order) |->
                Row(order[i], IF order[i] \in DOMAIN name_map
                              THEN name_map[order[i]] ELSE <<>>)]

\* faulty variant: the rows are validated against the first parent only
assert_membership_first_parent(inter_df, parents) ==
    LET InAll(r) == parents = <<>> \/ r.code \in CodeSet(parents[1])
        NotInAll(r) == ~InAll(r)
        gone == SelectSeq(inter_df, NotInAll)
    IN  [keep    |-> SelectSeq(inter_df, InAll),
         dropped |-> [i \in 1..Len(gone) |-> gone[i].code]]

\* faulty variant: the validation keeps every row
assert_membership_keep_all(inter_df, parents) ==
    [keep |-> inter_df, dropped |-> <<>>]

\* faulty variant: the parent sets are built like code_sets, without the empty groups
assert_membership_skip_empty(inter_df, parents) ==
    LET InAll(r) == \A j \in DOMAIN parents :
                        parents[j] = <<>> \/ r.code \in CodeSet(parents[j])
        NotInAll(r) == ~InAll(r)
        gone == SelectSeq(inter_df, NotInAll)
    IN  [keep    |-> SelectSeq(inter_df, InAll),
         dropped |-> [i \in 1..Len(gone) |-> gone[i].code]]

\* faulty variant: the offending rows are removed but not collected for the report
assert_membership_silent(inter_df, parents) ==
    LET InAll(r) == \A j \in DOMAIN parents : r.code \in CodeSet(parents[j])
    IN  [keep |-> SelectSeq(inter_df, InAll), dropped |-> <<>>]

\* keep: the returned DataFrame; dropped: the list whose non-emptiness
\* triggers the [FIX] line
_assert_membership(inter_df, parents) ==
    LET InAll(r) == \A j \in DOMAIN parents : r.code \in CodeSet(parents[j])
        NotInAll(r) == ~InAll(r)
        gone == SelectSeq(inter_df, NotInAll)
    IN  [keep    |-> SelectSeq(inter_df, InAll),
         dropped |-> [i \in 1..Len(gone) |-> gone[i].code]]

\* the [FIX] line of _assert_membership: label and sorted(set(dropped))
FixLine(label, dropped) ==
    [tag |-> "FIX", label |-> label,
     codes |-> Sorted({dropped[i] : i \in DOMAIN dropped})]

\* data.get(key, empty DataFrame)
data_get(key) == IF key \in DOMAIN data THEN data[key] ELSE EmptyDF

\* the list of {code, name} dicts of a DataFrame, row by row
_df_to_list(df) == [i \in 1..Len(df) |-> [code |-> df[i].code, name |-> df[i].name]]

\* faulty variant: a rule whose intersection is empty leaves no entry in overlaps
RuleStep_skipping ==
    /\ pc = "rules"
    /\ ri < Len(rules)
    /\ LET rule       == rules[ri + 1]
           parent_dfs == [i \in DOMAIN rule.groups |-> data_get(rule.groups[i])]
       IN  \E inter_df \in {_nway_intersection(parent_dfs)} :
           \E checked \in {_assert_membership(inter_df, parent_dfs)} :
           /\ inter' = (rule.name :> inter_df) @@ inter
           /\ overlaps' = IF checked.keep = <<>> THEN overlaps
                          ELSE (rule.name :> checked.keep) @@ overlaps
           /\ stdout' = IF checked.dropped # <<>>
                        THEN Append(stdout, FixLine(rule.name, checked.dropped))
                        ELSE stdout
    /\ ri' = ri + 1
    /\ UNCHANGED <<html, pc, ti, data, rules, payload, targets, chunker>>

\* faulty variant: a rule is evaluated as soon as it is configured, builds pending or not
RuleStep_eager ==
    /\ pc \in {"build", "rules"}
    /\ ri < Len(rules)
    /\ LET rule       == rules[ri + 1]
           parent_dfs == [i \in DOMAIN rule.groups |-> data_get(rule.groups[i])]
       IN  \E inter_df \in {_nway_intersection(parent_dfs)} :
           \E checked \in {_assert_membership(inter_df, parent_dfs)} :
           /\ inter' = (rule.name :> inter_df) @@ inter
           /\ overlaps' = (rule.name :> _df_to_list(checked.keep)) @@ overlaps
           /\ stdout' = IF checked.dropped # <<>>
                        THEN Append(stdout, FixLine(rule.name, checked.dropped))
                        ELSE stdout
    /\ ri' = ri + 1
    /\ UNCHANGED <<html, pc, ti, data, rules, payload, targets, chunker>>

\* faulty variant: the records a rule emits are taken out of its groups
RuleStep_consuming ==
    /\ pc = "rules"
    /\ ri < Len(rules)
    /\ LET rule       == rules[ri + 1]
           parent_dfs == [i \in DOMAIN rule.groups |-> data_get(rule.groups[i])]
       IN  \E inter_df \in {_nway_intersection(parent_dfs)} :
           \E checked \in {_assert_membership(inter_df, parent_dfs)} :
           /\ inter' = (rule.name :> inter_df) @@ inter
           /\ overlaps' = (rule.name :> _df_to_list(checked.keep)) @@ overlaps
           /\ stdout' = IF checked.dropped # <<>>
                        THEN Append(stdout, FixLine(rule.name, checked.dropped))
                        ELSE stdout
           /\ data' = [k \in DOMAIN data |->
                         IF \E i \in DOMAIN rule.groups : rule.groups[i] = k
                         THEN LET Left(r) == r.code \notin CodeSet(checked.keep)
                              IN  SelectSeq(data[k], Left)
                         ELSE data[k]]
    /\ ri' = ri + 1
    /\ UNCHANGED <<html, pc, ti, rules, payload, targets, chunker>>

\* one iteration of `for rule in rules` (lines 133-142); inter_df and checked
\* are the values the two calls return
RuleStep ==
    /\ pc = "rules"
    /\ ri < Len(rules)
    /\ LET rule       == rules[ri + 1]
           parent_dfs == [i \in DOMAIN rule.groups |-> data_get(rule.groups[i])]
       IN  \E inter_df \in {_nway_intersection(parent_dfs)} :
           \E checked \in {_assert_membership(inter_df, parent_dfs)} :
           /\ inter' = (rule.name :> inter_df) @@ inter
           /\ overlaps' = (rule.name :> _df_to_list(checked.keep)) @@ overlaps
           /\ stdout' = IF checked.dropped # <<>>
                        THEN Append(stdout, FixLine(rule.name, checked.dropped))
                        ELSE stdout
    /\ ri' = ri + 1
    /\ UNCHANGED <<html, pc, ti, data, rules, payload, targets, chunker>>

\* after the rule loop (lines 160-182): the JSON document is written, with
\* the groups and the counts unless `simple` was asked, and run_scraper
\* returns
Output ==
    /\ pc = "rules"
    /\ ri = Len(rules)
    /\ \E simple \in BOOLEAN :
          payload' =
            IF simple THEN [overlaps |-> overlaps]
            ELSE [summary |->
                    [group_counts |-> [k \in DOMAIN data |-> Len(data[k])],
                     triple_intersection_counts |->
                        [k \in DOMAIN overlaps |-> Len(overlaps[k])]],
                  data |-> [k \in DOMAIN data |-> _df_to_list(data[k])],
                  overlaps |-> overlaps]
    /\ pc' = "done"
    /\ UNCHANGED <<html, ti, data, rules, ri, inter, overlaps, stdout, targets, chunker>>

---------------------------------------------------------------------------
(* The engine on arbitrary groups: the state of run_scraper at line 128,   *)
(* for every outcome of the build loop over two labels, and one rule over  *)
(* these labels and a label that names no group.                           *)

MaxRecs == 2
MaxMembers == 3

\* the rows the groups are made of: one code under an empty name and two
\* different names, a second code under one name
EngineRows ==
    { Row(<<"2", "3", "1", "7">>, <<>>),
      Row(<<"2", "3", "1", "7">>, <<"u53F0">>),
      Row(<<"2", "3", "1", "7">>, <<"u7A4D">>),
      Row(<<"2", "3", "3", "0">>, <<"u53F0">>) }

\* what _scrape_group can return: rows without a repeated row
EngineGroups == {g \in BSeq(EngineRows, MaxRecs) : drop_duplicates(g) = g}

EngineLabels == {"A", "B"}
RuleLabels == EngineLabels \cup {"M"}

InitEngine ==
    /\ targets = <<>>
    /\ html = <<>>
    /\ pc = "rules"
    /\ ti = 0
    /\ data \in [EngineLabels -> EngineGroups]
    /\ rules \in {<<[name |-> "R", groups |-> g]>> : g \in BSeq(RuleLabels, MaxMembers)}
    /\ ri = 0
    /\ inter = <<>>
    /\ overlaps = <<>>
    /\ stdout = <<>>
    /\ payload = <<>>
    /\ lines = <<>>
    /\ li = 0
    /\ buf = <<>>
    /\ curr = 0
    /\ chunks = <<>>

NextEngine == RuleStep \/ Output

SpecEngine == InitEngine /\ [][NextEngine]_vars

---------------------------------------------------------------------------
(* A run of run_scraper                                                    *)

\* faulty variant: an exception of _scrape_group is not caught and leaves the loop
BuildStep_raising ==
    /\ pc = "build"
    /\ ti < Len(targets)
    /\ \E fetched \in BOOLEAN :
        LET t   == targets[ti + 1]
            got == IF fetched THEN _scrape_group(t.name, t.url, html)
                   ELSE Raised("fetch")
        IN  IF got.ok
            THEN /\ data' = (t.name :> got.df) @@ data
                 /\ stdout' = Append(stdout,
                                [tag |-> "OK", label |-> t.name, rows |-> Len(got.df)])
                 /\ ti' = ti + 1
                 /\ pc' = IF ti + 1 = Len(targets) THEN "rules" ELSE "build"
            ELSE /\ data' = data
                 /\ stdout' = Append(stdout,
                                [tag |-> "ERR", label |-> t.name, error |-> got.error])
                 /\ ti' = ti
                 /\ pc' = "raised"
    /\ UNCHANGED <<html, rules, ri, inter, overlaps, payload, targets, chunker>>

\* faulty variant: a failed build empties the groups built before it too
BuildStep_clobbering ==
    /\ pc = "build"
    /\ ti < Len(targets)
    /\ \E fetched \in BOOLEAN :
        LET t   == targets[ti + 1]
            got == IF fetched THEN _scrape_group(t.name, t.url, html)
                   ELSE Raised("fetch")
        IN  /\ data' = IF got.ok THEN (t.name :> got.df) @@ data
                       ELSE [l \in DOMAIN data \cup {t.name} |-> EmptyDF]
            /\ stdout' = Append(stdout,
                            IF got.ok
                            THEN [tag |-> "OK", label |-> t.name, rows |-> Len(got.df)]
                            ELSE [tag |-> "ERR", label |-> t.name, error |-> got.error])
    /\ ti' = ti + 1
    /\ pc' = IF ti + 1 = Len(targets) THEN "rules" ELSE "build"
    /\ UNCHANGED <<html, rules, ri, inter, overlaps, payload, targets, chunker>>

\* faulty variant: a failed build leaves no entry for its label
BuildStep_omitting ==
    /\ pc = "build"
    /\ ti < Len(targets)
    /\ \E fetched \in BOOLEAN :
        LET t   == targets[ti + 1]
            got == IF fetched THEN _scrape_group(t.name, t.url, html)
                   ELSE Raised("fetch")
        IN  /\ data' = IF got.ok THEN (t.name :> got.df) @@ data ELSE data
            /\ stdout' = Append(stdout,
                            IF got.ok
                            THEN [tag |-> "OK", label |-> t.name, rows |-> Len(got.df)]
                            ELSE [tag |-> "ERR", label |-> t.name, error |-> got.error])
    /\ ti' = ti + 1
    /\ pc' = IF ti + 1 = Len(targets) THEN "rules" ELSE "build"
    /\ UNCHANGED <<html, rules, ri, inter, overlaps, payload, targets, chunker>>

\* one iteration of `for name, url in targets` (lines 118-125): the fetch
\* returns the document or raises; any exception leaves an empty group
BuildStep ==
    /\ pc = "build"
    /\ ti < Len(targets)
    /\ \E fetched \in BOOLEAN :
        LET t   == targets[ti + 1]
            got == IF fetched THEN _scrape_group(t.name, t.url, html)
                   ELSE Raised("fetch")
        IN  /\ data' = (t.name :> got.df) @@ data
            /\ stdout' = Append(stdout,
                            IF got.ok
                            THEN [tag |-> "OK", label |-> t.name, rows |-> Len(got.df)]
                            ELSE [tag |-> "ERR", label |-> t.name, error |-> got.error])
    /\ ti' = ti + 1
    /\ pc' = IF ti + 1 = Len(targets) THEN "rules" ELSE "build"
    /\ UNCHANGED <<html, rules, ri, inter, overlaps, payload, targets, chunker>>

\* config.INTERSECTION_RULES of the run
INTERSECTION_RULES ==
    <<[name |-> "DDxB", groups |-> <<"DD", "ZGB_B">>],
      [name |-> "S",    groups |-> <<"ZGB_1d_S">>]>>

MaxDoc == 3

Item(k, c, n) == [kind |-> k, code |-> c, name |-> n]

\* the fragments the documents are made of
Items ==
    { Item("buy", <<>>, <<>>),
      Item("sell", <<>>, <<>>),
      Item("buy_padded", <<>>, <<>>),
      Item("sell_padded", <<>>, <<>>),
      Item("link", <<"2", "3", "3", "0">>, <<"u53F0">>),
      Item("link", <<"2", "3", "3", "0">>, <<"u7A4D">>),
      Item("link", <<"0", "0", "6", "3", "2", "R">>, <<"u53F0">>),
      Item("js", <<"F2", "F3", "F3", "F0">>, <<"u53F0">>),
      Item("js", <<"0", "0", "6", "3", "2", "Fr">>, <<"u7A4D", "*">>),
      Item("thead", <<"1", "2", "3">>, <<"u53F0">>),
      Item("thead", <<"2", "3", "1", "7">>, <<"u7A4D">>),
      Item("table", <<"2", "3", "1", "7">>, <<"u53F0">>),
      Item("text", <<"2", "3", "3", "0">>, <<"u7A4D">>) }

Docs == BSeq(Items, MaxDoc)

Init ==
    /\ targets = Targets
    /\ html \in Docs
    /\ pc = "build"
    /\ ti = 0
    /\ data = <<>>
    /\ rules = INTERSECTION_RULES
    /\ ri = 0
    /\ inter = <<>>
    /\ overlaps = <<>>
    /\ stdout = <<>>
    /\ payload = <<>>
    /\ lines = <<>>
    /\ li = 0
    /\ buf = <<>>
    /\ curr = 0
    /\ chunks = <<>>

Next == BuildStep \/ RuleStep \/ Output

Spec == Init /\ [][Next]_vars

---------------------------------------------------------------------------
(* Claims about the intersection engine                                    *)

\* the groups rule i names, in its order (a label without a group: empty)
Members(i) == [k \in DOMAIN rules[i].groups |-> data_get(rules[i].groups[k])]

\* the codes common to all member groups of rule i
CommonCodes(i) ==
    {c \in UNION {CodeSet(Members(i)[k]) : k \in DOMAIN Members(i)} :
        \A k \in DOMAIN Members(i) : c \in CodeSet(Members(i)[k])}

\* the [FIX] lines printed for rule i
FixLines(i) ==
    {k \in DOMAIN stdout : stdout[k].tag = "FIX" /\ stdout[k].label = rules[i].name}

Evaluated == 1..ri

\* C1: the code set of every evaluated rule's OverlapResult is a subset of
\* the intersection of its member groups' code sets, and equals it when no
\* MembershipViolation ([FIX]) was reported for the rule.
C1_IntersectionCorrect ==
    \A i \in Evaluated :
        /\ CodeSet(overlaps[rules[i].name]) \subseteq CommonCodes(i)
        /\ FixLines(i) = {} => CodeSet(overlaps[rules[i].name]) = CommonCodes(i)

C1_Witness ==
    /\ ri = 1
    /\ rules[1].groups = <<"A", "B">>
    /\ overlaps["R"] # <<>>
    /\ CodeSet(overlaps["R"]) # CodeSet(data["A"])
    /\ data["A"] # data["B"]

\* a member label without a group, or with an empty group
HasEmptyMember(i) == \E k \in DOMAIN Members(i) : Members(i)[k] = EmptyDF

\* C2: a rule one of whose member labels is absent from the mapping or maps
\* to an empty group has an empty OverlapResult (and its evaluation is
\* defined), whatever the other member groups contain.
C2_EmptyMemberEmptyOverlap ==
    \A i \in Evaluated : HasEmptyMember(i) => overlaps[rules[i].name] = <<>>

C2_Witness ==
    /\ ri = 1
    /\ rules[1].groups = <<"A", "M", "B">>
    /\ Len(data["A"]) = 2
    /\ CodeSet(data["A"]) \cap CodeSet(data["B"]) # {}
    /\ overlaps["R"] = <<>>

\* C3 (as claimed): every code _nway_intersection returns is in every
\* member group's code set, so validation removes nothing and reports
\* nothing.
C3_ValidationRedundant ==
    \A i \in Evaluated :
        /\ CodeSet(inter[rules[i].name]) \subseteq CommonCodes(i)
        /\ overlaps[rules[i].name] = inter[rules[i].name]
        /\ FixLines(i) = {}

\* the codes of the computed intersection missing from some member group
Offending(i) == CodeSet(inter[rules[i].name]) \ CommonCodes(i)

\* C4: every code of the computed intersection that is missing from a
\* member group is removed and reported; a report is printed only when a
\* code was removed; no removed code is in the OverlapResult, and the
\* other records are kept as they were, in order.
C4_ViolationsDroppedAndReported ==
    \A i \in Evaluated :
        LET NotOffending(r) == r.code \notin Offending(i)
        IN  /\ overlaps[rules[i].name] = SelectSeq(inter[rules[i].name], NotOffending)
            /\ Offending(i) # {} =>
                  /\ Cardinality(FixLines(i)) = 1
                  /\ \A k \in FixLines(i) :
                        {stdout[k].codes[j] : j \in DOMAIN stdout[k].codes} = Offending(i)
            /\ Offending(i) = {} => FixLines(i) = {}

C4_Witness ==
    /\ ri = 1
    /\ Cardinality(Offending(1)) = 2
    /\ FixLines(1) # {}
    /\ overlaps["R"] = <<>>

\* the rows of rule i's member groups in scan order: group by group in the
\* rule's listed order, within a group in record order
ScanRows(i) == Flatten(Members(i))

\* the example of the specification: A, B, C with the rule [A, B, C]
ScenarioA == <<Row(<<"2", "3", "3", "0">>, <<"u53F0">>), Row(<<"2", "3", "1", "7">>, <<"u7A4D">>)>>
ScenarioB == <<Row(<<"2", "3", "3", "0">>, <<"u53F0", "u7A4D">>), Row(<<"9", "9", "9", "9">>, <<"R">>)>>
ScenarioC == <<Row(<<"2", "3", "3", "0">>, <<>>), Row(<<"2", "3", "1", "7">>, <<"u7A4D", "2">>)>>
ScenarioABC == <<ScenarioA, ScenarioB, ScenarioC>>

\* C5: the display name of every code of an OverlapResult is the first
\* non-empty name for that code in scan order, and is empty only if no
\* member group has a non-empty name for it; the example yields exactly
\* the one record (2330, U+53F0).
C5_FirstNonEmptyName ==
    /\ \A i \in Evaluated :
         \A j \in DOMAIN overlaps[rules[i].name] :
            LET rec == overlaps[rules[i].name][j]
                named == {k \in DOMAIN ScanRows(i) :
                            ScanRows(i)[k].code = rec.code /\ ScanRows(i)[k].name # <<>>}
            IN  /\ named = {} => rec.name = <<>>
                /\ named # {} =>
                      \E k \in named : /\ rec.name = ScanRows(i)[k].name
                                        /\ \A m \in named : k <= m
    /\ _assert_membership(_nway_intersection(ScenarioABC), ScenarioABC).keep
         = <<Row(<<"2", "3", "3", "0">>, <<"u53F0">>)>>

C5_Witness ==
    /\ ri = 1
    /\ rules[1].groups = <<"A", "B">>
    /\ \E j \in DOMAIN overlaps["R"] :
         /\ overlaps["R"][j].name = <<"u7A4D">>
         /\ \E a \in DOMAIN data["A"] :
               data["A"][a] = Row(overlaps["R"][j].code, <<>>)
         /\ \E b \in DOMAIN data["B"] : \E b2 \in DOMAIN data["B"] :
               /\ b < b2
               /\ data["B"][b] = Row(overlaps["R"][j].code, <<"u7A4D">>)
               /\ data["B"][b2] = Row(overlaps["R"][j].code, <<"u53F0">>)

---------------------------------------------------------------------------
(* Claims about the group builder                                          *)

RowSet(df) == {df[i] : i \in DOMAIN df}

\* the build of the label's group returned a DataFrame ([OK] was printed)
BuiltOK(label) ==
    \E k \in DOMAIN stdout : stdout[k].tag = "OK" /\ stdout[k].label = label

\* a raw pair as a single-sided group stores it: the first 4-6 digit run as
\* the code, the name without whitespace
StoredGeneric(raw) == Row(RE_CODE_extract(raw.code), RemoveSpace(raw.name))

\* the rows of the first pass, in the order structural-link, embedded-
\* script, tabular, that found any row in the served document
FirstFound ==
    IF ~extract_from_onclick(html).is_none THEN extract_from_onclick(html).df
    ELSE IF ~extract_from_js(html).is_none THEN extract_from_js(html).df
    ELSE extract_from_tables(html).df

\* C6: the single-sided group holds exactly the pairs of the first pass
\* whose result is not empty, as stored; a pair only a later pass produces
\* is not in the group.
C6_CascadeFirstWins ==
    BuiltOK("DD") =>
        RowSet(data["DD"])
            = {StoredGeneric(FirstFound[i]) : i \in DOMAIN FirstFound}

C6_Witness ==
    /\ BuiltOK("DD")
    /\ ~extract_from_onclick(html).is_none
    /\ ~extract_from_tables(html).is_none
    /\ \E r \in RowSet(extract_from_tables(html).df) :
          StoredGeneric(r) \notin RowSet(data["DD"])

\* the side run_scraper extracts for a dual-sided label
SideOf(label) == IF label = "ZGB_1d_S" THEN "sell" ELSE "buy"

ZgbLabels == {"ZGB_B", "ZGB_1d_S"}

\* the rows of the four passes over the label's segment, pass by pass
PassesOf(label) ==
    LET segment == zgb_segment(html, SideOf(label))
    IN  <<zgb_js_rows(segment), zgb_anchor_rows(segment),
          zgb_table_rows(segment), zgb_plain_rows(segment)>>

\* a raw code brought to canonical form: half-width, uppercase
Canonical(code) == [i \in DOMAIN code |-> UpperChar(NFKCChar(code[i]))]

\* C7 (as claimed): a dual-sided group holds codes of one pass only, the
\* first pass over the segment whose result is not empty.
C7_SegmentCascade ==
    \A label \in ZgbLabels :
        BuiltOK(label) =>
            LET passes == PassesOf(label)
                first  == passes[Min({p \in DOMAIN passes : passes[p] # <<>>})]
            IN  CodeSet(data[label])
                    \subseteq {Canonical(first[i].code) : i \in DOMAIN first}

\* C7 (amended): all four passes run over the segment and the group holds
\* the canonical code of every row any of them found, each code once, with
\* the name of its first row in pass order.
C7_SegmentMergesAllPasses ==
    \A label \in ZgbLabels :
        BuiltOK(label) =>
            LET all == Flatten(PassesOf(label))
            IN  /\ CodeSet(data[label])
                      = {Canonical(all[i].code) : i \in DOMAIN all}
                /\ \A j \in DOMAIN data[label] :
                      \E i \in DOMAIN all :
                          /\ Canonical(all[i].code) = data[label][j].code
                          /\ Strip(RemoveStar(all[i].name)) = data[label][j].name
                          /\ \A k \in 1..(i - 1) :
                                Canonical(all[k].code) # data[label][j].code

C7_Witness ==
    /\ BuiltOK("ZGB_B")
    /\ LET passes == PassesOf("ZGB_B")
       IN  /\ passes[1] # <<>>
           /\ \E i \in DOMAIN passes[2] :
                 /\ \A k \in DOMAIN passes[1] :
                       Canonical(passes[1][k].code) # Canonical(passes[2][i].code)
                 /\ Canonical(passes[2][i].code) \in CodeSet(data["ZGB_B"])

\* C8 (as claimed): in every group no two records share a code.
C8_NoDuplicateCodes ==
    \A label \in DOMAIN data :
        \A i \in DOMAIN data[label] : \A j \in DOMAIN data[label] :
            i # j => data[label][i].code # data[label][j].code

\* 4 to 6 half-width digits, then at most one uppercase half-width letter
IsCanonicalCode(c) ==
    LET digits == IF c # <<>> /\ c[Len(c)] \in HalfUpper
                  THEN SubSeq(c, 1, Len(c) - 1) ELSE c
    IN  /\ Len(digits) \in MinDigits..MaxDigits
        /\ \A i \in DOMAIN digits : digits[i] \in HalfDigits

\* C9 (as claimed): every code stored in any group is canonical.
C9_StoredCodesCanonical ==
    \A label \in DOMAIN data :
        \A i \in DOMAIN data[label] : IsCanonicalCode(data[label][i].code)

\* the links of the served document that lie in the buy segment and whose
\* code is 4-6 digits and a letter
SuffixedLinks ==
    {it \in RowSet(zgb_segment(html, "buy")) :
        /\ it.kind = "link"
        /\ RawCodeShape(it.code)
        /\ IsAnyLetter(it.code[Len(it.code)])}

\* C10 (as claimed): an instrument with a letter-suffixed code that both the
\* single-sided and the dual-sided build extract is stored under the same
\* code, digits and uppercase half-width letter, in both groups, and is in
\* their overlap.
C10_SameCodeOnBothPaths ==
    (BuiltOK("DD") /\ BuiltOK("ZGB_B") /\ ri >= 1) =>
        \A it \in SuffixedLinks :
            /\ Canonical(it.code) \in CodeSet(data["DD"])
            /\ Canonical(it.code) \in CodeSet(data["ZGB_B"])
            /\ Canonical(it.code) \in CodeSet(overlaps["DDxB"])

\* a name without leading or trailing whitespace and without an asterisk
IsCleanName(n) == Strip(n) = n /\ \A i \in DOMAIN n : n[i] # "*"

\* C11 (as claimed): every name stored in any group, single-sided or
\* dual-sided, has no leading or trailing whitespace and no asterisk.
C11_StoredNamesClean ==
    \A label \in DOMAIN data :
        \A i \in DOMAIN data[label] : IsCleanName(data[label][i].name)

---------------------------------------------------------------------------
(* Claims about the run: failures, order, completion                       *)

\* the [ERR] lines printed so far
ErrLines == {k \in DOMAIN stdout : stdout[k].tag = "ERR"}

\* the labels whose build failed
FailedLabels == {stdout[k].label : k \in ErrLines}

\* C12: when the build of a group fails (fetch failure, segment not found,
\* extraction exhausted) the failure is caught: the label is mapped to an
\* empty group and the loop goes on, to the build of the next configured
\* group or, after the last one, to the rules; the run never leaves the
\* build loop with the failure.
C12_FailSoft ==
    /\ [](/\ \A k \in ErrLines :
                /\ stdout[k].error \in {"fetch", "segment", "exhausted"}
                /\ stdout[k].label \in DOMAIN data
                /\ data[stdout[k].label] = EmptyDF
          /\ pc \in {"build", "rules", "done"})
    /\ [][(Len(stdout') = Len(stdout) + 1 /\ stdout'[Len(stdout')].tag = "ERR") =>
            /\ stdout'[Len(stdout')].label = Targets[ti + 1].name
            /\ data' = (Targets[ti + 1].name :> EmptyDF) @@ data
            /\ ti' = ti + 1
            /\ ti' < Len(Targets) => pc' = "build"
            /\ ti' = Len(Targets) => pc' = "rules"]_vars

C12_Witness ==
    /\ pc = "done"
    /\ Len(stdout) >= 3
    /\ stdout[1].tag = "ERR" /\ stdout[1].error = "exhausted"
    /\ stdout[2].tag = "ERR" /\ stdout[2].error = "segment"
    /\ stdout[3].tag = "ERR" /\ stdout[3].error = "fetch"
    /\ DOMAIN data = {"DD", "ZGB_B", "ZGB_1d_S"}

---------------------------------------------------------------------------
(* Runs over every configuration of rules.  run_scraper is one thread of   *)
(* straight-line code and finite loops, and every fetch has a timeout      *)
(* (utils._get), so a step that can be taken is taken: weak fairness.      *)

MaxBatchDoc == 2
MaxRules == 2

\* the fragments of the served documents
BatchItems ==
    { Item("buy", <<>>, <<>>),
      Item("sell", <<>>, <<>>),
      Item("link", <<"2", "3", "3", "0">>, <<"u53F0">>) }

\* the rules a configuration is made of: no member, configured members, a
\* member label that no target builds; two rules may carry the same name
BatchRules ==
    { [name |-> "P", groups |-> <<>>],
      [name |-> "P", groups |-> <<"DD", "ZGB_B">>],
      [name |-> "Q", groups |-> <<"M", "ZGB_1d_S">>] }

\* a non-empty rule list (an empty one selects the default rules of lines 144-157)
BatchRuleLists == BSeq(BatchRules, MaxRules) \ {<<>>}

InitBatch ==
    /\ targets = Targets
    /\ html \in BSeq(BatchItems, MaxBatchDoc)
    /\ pc = "build"
    /\ ti = 0
    /\ data = <<>>
    /\ rules \in BatchRuleLists
    /\ ri = 0
    /\ inter = <<>>
    /\ overlaps = <<>>
    /\ stdout = <<>>
    /\ payload = <<>>
    /\ lines = <<>>
    /\ li = 0
    /\ buf = <<>>
    /\ curr = 0
    /\ chunks = <<>>

SpecBatch == InitBatch /\ [][Next]_vars /\ WF_vars(Next)

\* the names of the configured rules
RuleNames == {rules[i].name : i \in DOMAIN rules}

\* C13: whatever the rules and whichever builds fail, the run eventually
\* completes, and from then on overlaps holds one OverlapResult (possibly
\* empty) for every configured rule and for nothing else.
C13_RunCompletesWithAllRules ==
    <>[](pc = "done" /\ DOMAIN overlaps = RuleNames)

C13_Witness ==
    /\ pc = "done"
    /\ FailedLabels = {"DD", "ZGB_B", "ZGB_1d_S"}
    /\ Len(rules) = 2
    /\ DOMAIN overlaps = {"P", "Q"}
    /\ overlaps["P"] = <<>> /\ overlaps["Q"] = <<>>

\* the configured target of a label
TargetOf(label) == Targets[CHOOSE k \in DOMAIN Targets : Targets[k].name = label]

\* the group of the label in the run over the same documents in which no
\* fetch fails
UnfailedGroup(label) ==
    _scrape_group(label, TargetOf(label).url, html).df

\* the OverlapResult of rule i in that run
UnfailedOverlap(i) ==
    LET members == [k \in DOMAIN rules[i].groups |-> UnfailedGroup(rules[i].groups[k])]
    IN  _assert_membership(_nway_intersection(members), members).keep

\* C14: a failed build changes no other group, and no rule that does not
\* name a failed label: a group whose build did not fail is the group of
\* the run without failures, whichever other builds failed; a group once
\* stored is never changed; and the OverlapResult of a rule none of whose
\* labels failed is its OverlapResult in the run without failures.
C14_GracefulDegradation ==
    /\ [](/\ \A label \in DOMAIN data \ FailedLabels :
                data[label] = UnfailedGroup(label)
          /\ \A i \in Evaluated :
                (\A k \in DOMAIN rules[i].groups : rules[i].groups[k] \notin FailedLabels)
                    => overlaps[rules[i].name] = UnfailedOverlap(i))
    /\ [][\A label \in DOMAIN data :
            label \in DOMAIN data' /\ data'[label] = data[label]]_vars

C14_Witness ==
    /\ pc = "done"
    /\ \E k \in ErrLines : stdout[k].label = "DD" /\ stdout[k].error = "fetch"
    /\ UnfailedGroup("DD") # EmptyDF
    /\ "ZGB_1d_S" \notin FailedLabels
    /\ overlaps["S"] # <<>>
    /\ overlaps["S"] = UnfailedOverlap(2)

\* no marker of the side, with or without blanks, anywhere in the document
MarkerAbsent(side) ==
    \A i \in DOMAIN html : html[i].kind \notin {side, Padded(side)}

\* C15: when the requested side's marker occurs nowhere in a dual-sided
\* document, extract_zgb_side fails with SegmentNotFound and returns no
\* records; the label's group is then empty, the run goes on, and every
\* rule that names the label has an empty OverlapResult.
C15_AbsentMarkerSegmentNotFound ==
    \A label \in ZgbLabels :
        MarkerAbsent(SideOf(label)) =>
            /\ extract_zgb_side(html, SideOf(label)) = Raised("segment")
            /\ label \in DOMAIN data =>
                  /\ data[label] = EmptyDF
                  /\ \E k \in ErrLines :
                        /\ stdout[k].label = label
                        /\ stdout[k].error \in {"fetch", "segment"}
            /\ \A i \in Evaluated :
                  (\E k \in DOMAIN rules[i].groups : rules[i].groups[k] = label)
                      => overlaps[rules[i].name] = <<>>

C15_Witness ==
    /\ pc = "done"
    /\ MarkerAbsent("buy")
    /\ \E i \in DOMAIN html : html[i].kind = "sell"
    /\ \E k \in ErrLines : stdout[k].label = "ZGB_B" /\ stdout[k].error = "segment"
    /\ data["DD"] # EmptyDF
    /\ data["ZGB_1d_S"] # EmptyDF
    /\ data["ZGB_B"] = EmptyDF
    /\ overlaps["DDxB"] = <<>>

\* the label's build has run and its fetch returned the document
Fetched(label) ==
    /\ label \in DOMAIN data
    /\ ~\E k \in ErrLines : stdout[k].label = label /\ stdout[k].error = "fetch"

\* the leftmost position of a marker of the side, with or without blanks
FirstMarker(side) ==
    Min({i \in DOMAIN html : html[i].kind \in {side, Padded(side)}})

\* C16 (as claimed): the segment of a side starts at the leftmost marker of
\* that side, blanks between the brackets and the label allowed; a padded
\* marker that comes before an unpadded one is where the segment starts.
C16_SegmentStartsAtFirstMarker ==
    \A label \in ZgbLabels :
        (Fetched(label) /\ ~MarkerAbsent(SideOf(label))) =>
            zgb_start(html, SideOf(label)) = FirstMarker(SideOf(label))

\* the position, after the start of the side's segment, of the next marker
\* of the opposite side, with or without blanks; past the end when there is none
NextOpposite(side) ==
    LET other == IF side = "buy" THEN "sell" ELSE "buy"
        ends  == {i \in DOMAIN html :
                    /\ i > zgb_start(html, side)
                    /\ html[i].kind \in {other, Padded(other)}}
    IN  IF ends = {} THEN Len(html) + 1 ELSE Min(ends)

\* C17 (as claimed): the segment of a side runs from its start to just
\* before the next marker of the opposite side, that marker matched with
\* the same tolerance for blanks, and to the end of the document only when
\* no such marker follows; so nothing after the opposite side's marker is
\* in the segment.
C17_SegmentEndsAtOppositeMarker ==
    \A label \in ZgbLabels :
        (Fetched(label) /\ ~MarkerAbsent(SideOf(label))) =>
            zgb_segment(html, SideOf(label))
                = SubSeq(html, zgb_start(html, SideOf(label)),
                         NextOpposite(SideOf(label)) - 1)

\* the label's build failed with ExtractionExhausted
Exhausted(label) ==
    \E k \in ErrLines : stdout[k].label = label /\ stdout[k].error = "exhausted"

\* the extraction passes were applied for the label: the document was
\* fetched and, for a dual-sided label, its segment was found
PassesApplied(label) ==
    /\ Fetched(label)
    /\ label \in ZgbLabels => ~MarkerAbsent(SideOf(label))

\* no pass applied for the label yields a pair
AllPassesEmpty(label) ==
    IF label \in ZgbLabels THEN Flatten(PassesOf(label)) = <<>>
    ELSE /\ extract_from_onclick(html).df = <<>>
         /\ extract_from_js(html).df = <<>>
         /\ extract_from_tables(html).df = <<>>

\* C18: a build fails with ExtractionExhausted exactly when the passes were
\* applied to the (segmented) text and none of them yields a pair; a build
\* that ends without error had a pass that yields a pair.
C18_ExhaustedIffNoPair ==
    \A label \in DOMAIN data :
        /\ Exhausted(label) <=> (PassesApplied(label) /\ AllPassesEmpty(label))
        /\ BuiltOK(label) => ~AllPassesEmpty(label)

C18_Witness ==
    /\ pc = "done"
    /\ \E i \in DOMAIN html : html[i].kind = "text"
    /\ Exhausted("DD")
    /\ BuiltOK("ZGB_B")
    /\ Exhausted("ZGB_1d_S")

IsBuildLine(line) == line.tag \in {"OK", "ERR"}

\* the [OK] and [ERR] lines in the order printed: one per finished build
BuildLines == SelectSeq(stdout, IsBuildLine)

\* C19: groups are built one at a time in configured order (the DD source,
\* the default ZGB source, the extra ZGB source), each build finished, with
\* a group or an empty group, before the next begins, and no rule is
\* evaluated before the build of every configured group has finished.
C19_BuildsInOrderThenRules ==
    /\ [](/\ Len(BuildLines) = ti
          /\ \A k \in 1..ti : BuildLines[k].label = Targets[k].name
          /\ DOMAIN data = {Targets[k].name : k \in 1..ti}
          /\ (ri > 0 \/ inter # <<>> \/ overlaps # <<>>) => ti = Len(Targets))
    /\ [][/\ ti' \in {ti, ti + 1}
          /\ ti' = ti + 1 => (ri = 0 /\ ri' = 0)
          /\ ri' # ri => (ti = Len(Targets) /\ ti' = ti)]_vars

C19_Witness ==
    /\ pc = "done"
    /\ ri = Len(rules)
    /\ Len(BuildLines) = 3
    /\ BuildLines[1].tag = "OK" /\ BuildLines[1].label = "DD"
    /\ BuildLines[2].tag = "ERR" /\ BuildLines[2].label = "ZGB_B"
    /\ BuildLines[3].tag = "OK" /\ BuildLines[3].label = "ZGB_1d_S"

---------------------------------------------------------------------------
(* Rules with fewer than two members                                       *)

\* C20: a rule with exactly one member label has an OverlapResult whose
\* code set is that member group's code set, a rule with no member label
\* has an empty OverlapResult; both are evaluated without an error.
C20_SingleAndZeroMemberRules ==
    \A i \in Evaluated :
        /\ rules[i].name \in DOMAIN overlaps
        /\ Len(rules[i].groups) = 1 =>
              CodeSet(overlaps[rules[i].name]) = CodeSet(Members(i)[1])
        /\ Len(rules[i].groups) = 0 => overlaps[rules[i].name] = <<>>

C20_Witness ==
    /\ pc = "done"
    /\ rules[1].groups = <<"B">>
    /\ Cardinality(CodeSet(data["B"])) = 2
    /\ CodeSet(overlaps["R"]) = CodeSet(data["B"])
    /\ CodeSet(data["A"]) # CodeSet(data["B"])

---------------------------------------------------------------------------
(* Runs over pages of links and tables: the cases of record order and of   *)
(* the tabular strategy, every page served to the three targets.           *)

PageItems ==
    { Item("sell", <<>>, <<>>),
      Item("link", <<"2", "3", "3", "0">>, <<"u53F0">>),
      Item("link", <<"0", "0", "6", "3", "2", "R">>, <<"u53F0">>),
      Item("thead", <<"1", "2", "3">>, <<"u53F0">>),
      Item("thead", <<"2", "3", "1", "7">>, <<"u7A4D">>),
      Item("table", <<"2", "3", "1", "7">>, <<"u53F0">>) }

InitPages ==
    /\ targets = Targets
    /\ html \in BSeq(PageItems, MaxDoc)
    /\ pc = "build"
    /\ ti = 0
    /\ data = <<>>
    /\ rules = INTERSECTION_RULES
    /\ ri = 0
    /\ inter = <<>>
    /\ overlaps = <<>>
    /\ stdout = <<>>
    /\ payload = <<>>
    /\ lines = <<>>
    /\ li = 0
    /\ buf = <<>>
    /\ curr = 0
    /\ chunks = <<>>

SpecPages == InitPages /\ [][Next]_vars

---------------------------------------------------------------------------
(* Claims about order, sides, normalization and duplicates                 *)

\* a is b with some elements left out, the others in b's order
RECURSIVE IsSubsequence(_, _)
IsSubsequence(a, b) ==
    IF a = <<>> THEN TRUE
    ELSE IF b = <<>> THEN FALSE
    ELSE IF Head(a) = Head(b) THEN IsSubsequence(Tail(a), Tail(b))
    ELSE IsSubsequence(a, Tail(b))

\* the rows the label's build extracted, as stored, in extraction order
ExtractedRows(label) ==
    IF label \in ZgbLabels
    THEN LET all == Flatten(PassesOf(label))
         IN  [i \in 1..Len(all) |->
                Row(Canonical(all[i].code), Strip(RemoveStar(all[i].name)))]
    ELSE [i \in 1..Len(FirstFound) |-> StoredGeneric(FirstFound[i])]

\* C21: the records of every OverlapResult are in strictly ascending order
\* of code, so no code twice, and validation keeps that order; the records
\* of a group are emitted in the order they were extracted.
C21_OverlapSortedGroupInOrder ==
    /\ \A i \in Evaluated :
          LET out == overlaps[rules[i].name]
          IN  /\ \A j \in 1..(Len(out) - 1) : StrLess(out[j].code, out[j + 1].code)
              /\ IsSubsequence(out, inter[rules[i].name])
    /\ \A label \in DOMAIN data :
          BuiltOK(label) => IsSubsequence(data[label], ExtractedRows(label))
    /\ pc = "done" =>
          /\ payload.overlaps = overlaps
          /\ "data" \in DOMAIN payload =>
                \A label \in DOMAIN data : payload.data[label] = data[label]

C21_Witness ==
    /\ pc = "done"
    /\ "data" \in DOMAIN payload
    /\ Len(payload.data["ZGB_1d_S"]) = 2
    /\ Len(payload.overlaps["S"]) = 2
    /\ payload.overlaps["S"][1].code = payload.data["ZGB_1d_S"][2].code
    /\ payload.overlaps["S"][2].code = payload.data["ZGB_1d_S"][1].code

---------------------------------------------------------------------------
(* Runs with a target added from the command line (lines 193-207)          *)

\* values of --zgb-label ("" when the option is absent) and of --zgb-mode
CliLabels == {"", "KGI", "US"}
CliModes == {"B", "S"}

\* "ZGB_" + label, the label defaulting to <broker>_<days>d_<mode>
CliName(label, mode) ==
    CASE label = "KGI" -> "ZGB_KGI"
      [] label = "US"  -> "ZGB_US"
      [] label = "" /\ mode = "B" -> "ZGB_9200_1d_B"
      [] label = "" /\ mode = "S" -> "ZGB_9200_1d_S"

\* the target that lines 202-207 and 111-114 make of the options
CliTarget(label, mode) ==
    [name |-> CliName(label, mode), url |-> build_zgb_url([c |-> mode])]

InitCli ==
    /\ \E label \in CliLabels : \E mode \in CliModes :
          /\ targets = SubSeq(Targets, 1, 2) \o <<CliTarget(label, mode)>>
          /\ rules = <<[name |-> "CLI", groups |-> <<CliName(label, mode)>>]>>
    /\ html \in BSeq(BatchItems, MaxBatchDoc)
    /\ pc = "build"
    /\ ti = 0
    /\ data = <<>>
    /\ ri = 0
    /\ inter = <<>>
    /\ overlaps = <<>>
    /\ stdout = <<>>
    /\ payload = <<>>
    /\ lines = <<>>
    /\ li = 0
    /\ buf = <<>>
    /\ curr = 0
    /\ chunks = <<>>

SpecCli == InitCli /\ [][Next]_vars

\* C22 (as claimed): the side extracted for a dual-sided group is the side
\* its configuration asks for, c = B the buy side and c = S the sell side,
\* whatever the label of the group.
C22_SideFromConfiguredMode ==
    \A k \in 1..ti :
        (IsZgbUrl(targets[k].url) /\ Fetched(targets[k].name)) =>
            LET want == extract_zgb_side(html, zgb_side_from_url(targets[k].url))
            IN  data[targets[k].name] = want.df

---------------------------------------------------------------------------
(* Runs over raw pairs: the page holds the buy marker and one script call, *)
(* whose code and name range over the raw forms the site produces.         *)

MaxName == 3

\* raw codes: plain, full-width digits, letter suffix in three forms, too short
NormCodes ==
    { <<"2", "3", "3", "0">>,
      <<"F2", "F3", "F3", "F0">>,
      <<"0", "0", "6", "3", "2", "Fr">>,
      <<"0", "0", "6", "3", "2", "r">>,
      <<"1", "2", "3">> }

\* raw names: blanks, asterisks and an ideograph in every arrangement
NormNames == BSeq({" ", "*", "u53F0"}, MaxName) \ {<<>>}

InitNorm ==
    /\ targets = SubSeq(Targets, 1, 2)
    /\ \E c \in NormCodes : \E n \in NormNames :
          html = <<Item("buy", <<>>, <<>>), Item("js", c, n)>>
    /\ rules = SubSeq(INTERSECTION_RULES, 1, 1)
    /\ pc = "build"
    /\ ti = 0
    /\ data = <<>>
    /\ ri = 0
    /\ inter = <<>>
    /\ overlaps = <<>>
    /\ stdout = <<>>
    /\ payload = <<>>
    /\ lines = <<>>
    /\ li = 0
    /\ buf = <<>>
    /\ curr = 0
    /\ chunks = <<>>

SpecNorm == InitNorm /\ [][Next]_vars

\* the raw pairs of the served page
RawPairs == {Row(html[i].code, html[i].name) : i \in {k \in DOMAIN html : html[k].kind = "js"}}

\* C23: normalizing an accepted pair a second time gives the identical
\* record, on the single-sided path (extractors.py:102-105) and on the
\* dual-sided path (extractors.py:168-179): for every raw pair of the page
\* and for every group as stored.
C23_NormalizerIdempotent ==
    /\ \A raw \in RawPairs :
          /\ normalize_generic(normalize_generic(<<raw>>)) = normalize_generic(<<raw>>)
          /\ zgb_clean(zgb_clean(<<raw>>, {}), {}) = zgb_clean(<<raw>>, {})
    /\ "DD" \in DOMAIN data => normalize_generic(data["DD"]) = data["DD"]
    /\ "ZGB_B" \in DOMAIN data => zgb_clean(data["ZGB_B"], {}) = data["ZGB_B"]

C23_Witness ==
    /\ pc = "done"
    /\ html[2].code = <<"0", "0", "6", "3", "2", "Fr">>
    /\ html[2].name = <<"*", " ", "u53F0">>
    /\ data["DD"] = <<Row(<<"0", "0", "6", "3", "2">>, <<"*", "u53F0">>)>>
    /\ data["ZGB_B"] = <<Row(<<"0", "0", "6", "3", "2", "R">>, <<"u53F0">>)>>

\* the first of the rows that carries the code
FirstWithCode(rows, code) ==
    rows[CHOOSE i \in DOMAIN rows :
            /\ rows[i].code = code
            /\ \A j \in 1..(i - 1) : rows[j].code # code]

\* C24 (as claimed): of the rows extracted for a group with one normalized
\* code, the group keeps the first in extraction order and no other, on
\* the single-sided and on the dual-sided path.
C24_FirstOccurrenceWins ==
    \A label \in DOMAIN data :
        BuiltOK(label) =>
            \A i \in DOMAIN data[label] :
                LET code == data[label][i].code
                IN  /\ data[label][i] = FirstWithCode(ExtractedRows(label), code)
                    /\ \A j \in DOMAIN data[label] :
                          j # i => data[label][j].code # code

\* what rule i emits when it is evaluated alone on the groups as they are
RuleAlone(i) ==
    LET members == [k \in DOMAIN rules[i].groups |-> data_get(rules[i].groups[k])]
    IN  _df_to_list(_assert_membership(_nway_intersection(members), members).keep)

\* C25: groups are immutable after creation: no step taken once the rules
\* are being evaluated (intersection, name resolution, validation,
\* serialization) changes a group, and the result stored under a rule's name
\* is what the rule last evaluated under that name gives on its own, whatever
\* rules were evaluated before it.
C25_GroupsImmutable ==
    /\ [](\A i \in Evaluated :
             (\A j \in Evaluated : rules[j].name = rules[i].name => j <= i)
                => overlaps[rules[i].name] = RuleAlone(i))
    /\ [][pc # "build" => data' = data]_vars

C25_Witness ==
    /\ ri = 2
    /\ rules[1] = rules[2]
    /\ rules[2].groups = <<"DD", "ZGB_B">>
    /\ overlaps[rules[2].name] # <<>>
    /\ data["DD"] # <<>>

\* the valid rows of a table with a code header and a name header: the
\* digit run of the code cell, the name cell without whitespace
HeaderRows(t) ==
    IF t.kind = "thead" /\ RE_CODE_extract(t.code) # NaN
    THEN <<StoredGeneric(t)>>
    ELSE <<>>

\* the rows of the first table, in document order, that has both headers
\* and a valid row; <<>> when no table has
RECURSIVE FirstHeaderTable(_)
FirstHeaderTable(tables) ==
    IF tables = <<>> THEN <<>>
    ELSE IF HeaderRows(Head(tables)) # <<>> THEN HeaderRows(Head(tables))
    ELSE FirstHeaderTable(Tail(tables))

\* the row-level matches of every table, in document order
RECURSIVE RowMatches(_)
RowMatches(tables) ==
    IF tables = <<>> THEN <<>>
    ELSE ScanCells(Head(tables).code, Head(tables).name) \o RowMatches(Tail(tables))

TripleParents == [k \in 1..3 |-> data_get(rules[1].groups[k])]

\* C27: for a rule over three groups, empty and repeated ones included, the
\* configured-rules path (_nway_intersection then _assert_membership) and
\* the default-rules path (_triple_intersection then _assert_membership)
\* give the same sequence of records; the stored result of the rule is that
\* sequence.
C27_DefaultPathAgrees ==
    Len(rules[1].groups) = 3 =>
        LET p       == TripleParents
            by_nway == _assert_membership(_nway_intersection(p), p).keep
            by_trip == _assert_membership(_triple_intersection(p[1], p[2], p[3]), p).keep
        IN  /\ by_nway = by_trip
            /\ ri = 1 => overlaps[rules[1].name] = _df_to_list(by_trip)

\* one group of the three is missing: the n-way intersection skips it and is
\* not empty, validation empties it; two named groups give a named record
C27_Witness ==
    /\ ri = 1
    /\ rules[1].groups = <<"A", "M", "B">>
    /\ inter["R"] # <<>>
    /\ overlaps["R"] = <<>>
    /\ _triple_intersection(data["A"], data["B"], data["B"]) # <<>>
    /\ data["A"][1].name = <<>>

\* the validated result of a rule with the member labels `groups`
ResultOf(groups) ==
    LET members == [k \in DOMAIN groups |-> data_get(groups[k])]
    IN  _assert_membership(_nway_intersection(members), members).keep

\* the labels a member list names
LabelSet(groups) == {groups[k] : k \in DOMAIN groups}

\* the member list that names the labels of S once each, in a fixed order
LabelsOnce(S) ==
    LET Named(l) == l \in S
    IN  SelectSeq(<<"A", "B", "M">>, Named)

\* C28: the code set of a rule's OverlapResult depends only on the set of
\* its member labels: over the same groups every member list, in whatever
\* order and with whatever label repeated, gives the code set of the list
\* that names the same labels once each.
C28_CodeSetDependsOnLabelSet ==
    \A i \in Evaluated :
        CodeSet(overlaps[rules[i].name])
            = CodeSet(ResultOf(LabelsOnce(LabelSet(rules[i].groups))))

\* the same labels in the other order: the same code, another name
C28_Witness ==
    /\ ri = 1
    /\ rules[1].groups = <<"A", "B">>
    /\ overlaps["R"] = <<Row(<<"2", "3", "1", "7">>, <<"u53F0">>)>>
    /\ ResultOf(<<"B", "A", "B">>) = <<Row(<<"2", "3", "1", "7">>, <<"u7A4D">>)>>

\* the labels of the first n configured targets
TargetLabels(n) == {targets[k].name : k \in 1..n}

\* C29: the label-to-group mapping has an entry for exactly the labels of
\* the targets built so far, and after the build loop for exactly the
\* configured target labels (the single-sided label, the default dual-sided
\* label and "ZGB_" + label of the added target); a label whose build failed
\* is present with an empty group.
C29_EntryForEveryTarget ==
    /\ DOMAIN data = TargetLabels(ti)
    /\ pc # "build" =>
          DOMAIN data = {"DD", "ZGB_B"} \cup {targets[Len(targets)].name}
    /\ \A k \in DOMAIN stdout :
          stdout[k].tag = "ERR" =>
              /\ stdout[k].label \in DOMAIN data
              /\ data[stdout[k].label] = EmptyDF

\* the build of the added target failed, the two others succeeded
C29_Witness ==
    /\ pc = "done"
    /\ targets[3].name = "ZGB_9200_1d_S"
    /\ stdout[1].tag = "OK" /\ stdout[2].tag = "OK"
    /\ stdout[3].tag = "ERR" /\ stdout[3].error = "segment"
    /\ DOMAIN data = {"DD", "ZGB_B", "ZGB_9200_1d_S"}
    /\ data["ZGB_B"] # <<>>
    /\ data["ZGB_9200_1d_S"] = <<>>

---------------------------------------------------------------------------
(* The notifier's line chunker (notifier/discord.py)                       *)

\* the size limit of a chunk (1000 in _build_embed_for_overlap)
max_chars == 3

MaxLines == 3

\* "\n".join(buf)
RECURSIVE Join(_)
Join(strs) ==
    IF strs = <<>> THEN <<>>
    ELSE IF Len(strs) = 1 THEN strs[1]
    ELSE strs[1] \o <<"\n">> \o Join(Tail(strs))

\* faulty variant: the separator is not counted
ChunkStep_uncounted ==
    /\ pc = "chunk"
    /\ li < Len(lines)
    /\ LET ln   == RStrip(lines[li + 1])
           need == Len(ln)
       IN  IF curr + need > max_chars /\ buf # <<>>
           THEN /\ chunks' = Append(chunks, Join(buf))
                /\ buf' = <<ln>>
                /\ curr' = need
           ELSE /\ chunks' = chunks
                /\ buf' = Append(buf, ln)
                /\ curr' = curr + need
    /\ li' = li + 1
    /\ UNCHANGED <<html, pc, ti, data, rules, ri, inter, overlaps, stdout, payload,
                   targets, lines>>

\* one iteration of `for ln in lines` (lines 20-25): need is computed
\* before the flush and added as computed
ChunkStep ==
    /\ pc = "chunk"
    /\ li < Len(lines)
    /\ LET ln   == RStrip(lines[li + 1])
           need == Len(ln) + (IF buf # <<>> THEN 1 ELSE 0)
       IN  IF curr + need > max_chars /\ buf # <<>>
           THEN /\ chunks' = Append(chunks, Join(buf))
                /\ buf' = <<ln>>
                /\ curr' = need
           ELSE /\ chunks' = chunks
                /\ buf' = Append(buf, ln)
                /\ curr' = curr + need
    /\ li' = li + 1
    /\ UNCHANGED <<html, pc, ti, data, rules, ri, inter, overlaps, stdout, payload,
                   targets, lines>>

\* after the loop (lines 26-27): what is left in buf is yielded
ChunkEnd ==
    /\ pc = "chunk"
    /\ li = Len(lines)
    /\ chunks' = IF buf # <<>> THEN Append(chunks, Join(buf)) ELSE chunks
    /\ pc' = "chunked"
    /\ UNCHANGED <<html, ti, data, rules, ri, inter, overlaps, stdout, payload,
                   targets, lines, li, buf, curr>>

\* the lines handed in: none to max_chars characters, then at most one
\* trailing blank, max_chars characters at most in all
ChunkLinePool ==
    {s \in BSeq({"2", " "}, max_chars) :
        \A i \in 1..(Len(s) - 1) : s[i] = "2"}

InitChunk ==
    /\ lines \in BSeq(ChunkLinePool, MaxLines)
    /\ li = 0
    /\ buf = <<>>
    /\ curr = 0
    /\ chunks = <<>>
    /\ pc = "chunk"
    /\ targets = <<>>
    /\ html = <<>>
    /\ ti = 0
    /\ data = <<>>
    /\ rules = <<>>
    /\ ri = 0
    /\ inter = <<>>
    /\ overlaps = <<>>
    /\ stdout = <<>>
    /\ payload = <<>>

NextChunk == ChunkStep \/ ChunkEnd

SpecChunk == InitChunk /\ [][NextChunk]_vars

\* the lines of a chunk: str.split("\n")
RECURSIVE SplitLines(_)
SplitLines(s) ==
    IF \A i \in DOMAIN s : s[i] # "\n" THEN <<s>>
    ELSE LET k == CHOOSE i \in DOMAIN s :
                     s[i] = "\n" /\ \A j \in 1..(i - 1) : s[j] # "\n"
         IN  <<SubSeq(s, 1, k - 1)>> \o SplitLines(SubSeq(s, k + 1, Len(s)))

\* the lines of the chunks yielded so far, in order
ChunkedLines == Flatten([i \in DOMAIN chunks |-> SplitLines(chunks[i])])

\* every chunk yielded so far is at most max_chars characters long, the
\* newline separators included
ChunksWithinLimit == \A i \in DOMAIN chunks : Len(chunks[i]) <= max_chars

\* C30 (as claimed): every chunk is within the limit and the chunks, in
\* order, hold every input line exactly once in the original order.
C30_ChunksHoldEveryLine ==
    /\ ChunksWithinLimit
    /\ pc = "chunked" => ChunkedLines = lines

\* C30 (amended): every chunk is within the limit and the chunks, in order,
\* hold every input line without its trailing whitespace exactly once in
\* the original order; while the generator runs, the chunks yielded and the
\* buffer hold the lines taken so far.
C30_ChunksHoldEveryStrippedLine ==
    /\ ChunksWithinLimit
    /\ pc = "chunk" =>
          ChunkedLines \o buf = [i \in 1..li |-> RStrip(lines[i])]
    /\ pc = "chunked" =>
          ChunkedLines = [i \in DOMAIN lines |-> RStrip(lines[i])]

\* two lines share a chunk, the third would pass the limit and opens the
\* next; the second line came with a trailing blank
C30_Witness ==
    /\ pc = "chunked"
    /\ lines = <<<<"2">>, <<"2", " ">>, <<"2", "2", "2">>>>
    /\ chunks = <<<<"2", "\n", "2">>, <<"2", "2", "2">>>>

====
